---------------------------- MODULE Spec2Model ----------------------------
(***************************************************************************)
(* Model of the RIPE Atlas probe scraper (src/Scrapping.py): the Fetcher   *)
(* get_probe_info, the Filter filter_probes, the Exporter export_data with *)
(* get_output_filename, and the Driver main.                               *)
(*                                                                         *)
(* Python and JSON values are tagged tuples, so that values of different   *)
(* Python types are different values that can still be compared:           *)
(*   <<"none">>            None / JSON null                                *)
(*   <<"missing">>         a key that the JSON object does not have        *)
(*   <<"int", n>>          an integer                                      *)
(*   <<"bool", b>>         a boolean                                       *)
(*   <<"str", s>>          a string                                        *)
(*   <<"str", "dt", d, h>> the string strftime('%Y-%m-%d %H:%M:%S') gives  *)
(*                         for day d, hour h (wall clock)                  *)
(*   <<"str", "date", d>>  a 'YYYY-MM-DD' string naming day d              *)
(*   <<"str", "join", ns>> ", ".join(ns) of a non-empty list of names      *)
(*   <<"datetime", t>>     a naive datetime, t hours after 1970-01-01 00:00*)
(*   <<"obj", k, v>>       a JSON object whose only key is k, with value v *)
(*   <<"obj">>             the empty JSON object                           *)
(*   <<"list", xs>>        a JSON array                                    *)
(*   <<"dict", r>>         a Python dict, r a record of its items          *)
(* Time is counted in hours: the timestamps the model draws are whole      *)
(* hours, which the '%H:%M:%S' format keeps exactly.                       *)
(***************************************************************************)
EXTENDS Integers, Sequences, FiniteSets, TLC

VARIABLES
    pc,                     \* position of the running function
    args,                   \* argparse namespace (main, line 128)
    first_connected_after,  \* main's local, line 131
    last_connected_after,   \* main's local, line 133
    connected_filter,       \* main's local, line 135
    probe_id,               \* main's loop variable, line 138
    response,               \* what requests.get returned for probe_id
    info,                   \* main's local, line 139
    probes,                 \* main's accumulating list, line 137
    filtered_probes,        \* main's local, line 145
    output_filename,        \* main's local, line 154
    files,                  \* names of the files written so far
    stdout,                 \* lines printed so far
    calls,                  \* history: ids the Fetcher was invoked with
    sleeps,                 \* history: ids after whose fetch time.sleep ran
    origin,                 \* history: origin[i] is the id whose fetch appended probes[i]
    nfilter,                \* history: number of filter_probes calls
    nexport                 \* history: number of export_data calls

vars == <<pc, args, first_connected_after, last_connected_after,
          connected_filter, probe_id, response, info, probes,
          filtered_probes, output_filename, files, stdout, calls, sleeps,
          origin, nfilter, nexport>>

---------------------------------------------------------------------------
(* Values *)

None == <<"none">>
Missing == <<"missing">>
IntV(n) == <<"int", n>>
BoolV(b) == <<"bool", b>>
StrV(s) == <<"str", s>>
Obj(k, v) == <<"obj", k, v>>
EmptyObj == <<"obj">>
List(xs) == <<"list", xs>>
Dict(r) == <<"dict", r>>

\* The absent-marker "N/A" (Scrapping.py lines 24, 30, 33-36, 42).
NA == StrV("N/A")

\* Python truthiness of a value (used by `if ts`, `if geometry`,
\* `if data.get("tags")`, `if country`, `if args.first_connected_after`).
Truthy(v) ==
    CASE v[1] = "none" -> FALSE
      [] v[1] = "missing" -> FALSE
      [] v[1] = "int" -> v[2] # 0
      [] v[1] = "bool" -> v[2]
      [] v[1] = "str" -> ~(Len(v) = 2 /\ v[2] = "")
      [] v[1] = "obj" -> Len(v) > 1
      [] v[1] = "list" -> Len(v[2]) > 0
      [] v[1] = "dict" -> TRUE
      [] OTHER -> TRUE

\* dict.get(key, default) on the body: a missing key gives the default, a
\* key that is present gives its value, JSON null included.
Get(v, default) == IF v = Missing THEN default ELSE v

---------------------------------------------------------------------------
(* Time: Europe/Paris wall clock and the two string formats *)

HoursPerDay == 24

\* tz = pytz.timezone('Europe/Paris') (line 12): the timestamps the model
\* draws lie in winter, where Paris is one hour ahead of UTC.
UtcOffset == 1

\* datetime.fromtimestamp(ts, tz).strftime('%Y-%m-%d %H:%M:%S') (line 30):
\* the Paris wall clock of epoch hour ts, written as day and hour.
strftime(ts) ==
    <<"str", "dt", (ts + UtcOffset) \div HoursPerDay,
                   (ts + UtcOffset) % HoursPerDay>>

\* format_timestamp (lines 29-30); ts is what data.get(...) returned.
format_timestamp(ts) ==
    IF Truthy(ts) THEN strftime(ts[2]) ELSE NA

\* Whether datetime.strptime(s, '%Y-%m-%d %H:%M:%S') parses s (lines 95, 99).
IsDateTimeStr(s) == Len(s) = 4 /\ s[2] = "dt"

\* datetime.strptime(s, '%Y-%m-%d %H:%M:%S'): a naive datetime.
strptime_datetime(s) == <<"datetime", s[3] * HoursPerDay + s[4]>>

\* Whether datetime.strptime(s, "%Y-%m-%d") parses s (lines 131-134).
IsDateStr(s) == Len(s) = 3 /\ s[2] = "date"

\* datetime.strptime(s, "%Y-%m-%d"): midnight of the day, naive.
strptime_date(s) == <<"datetime", s[3] * HoursPerDay>>

---------------------------------------------------------------------------
(* Probe Fetcher: get_probe_info, lines 14-44 *)

\* Lines 23-26: `if geometry and "coordinates" in geometry` then unpack.
HasCoordinates(geometry) ==
    Truthy(geometry) /\ Len(geometry) = 3 /\ geometry[2] = "coordinates"

\* Line 26 raises when the coordinates are not a sequence of two elements
\* (TypeError for null, ValueError for another length).
UnpackRaises(geometry) ==
    /\ HasCoordinates(geometry)
    /\ ~(geometry[3][1] = "list" /\ Len(geometry[3][2]) = 2)

Longitude(geometry) ==
    IF HasCoordinates(geometry) THEN geometry[3][2][1] ELSE NA

Latitude(geometry) ==
    IF HasCoordinates(geometry) THEN geometry[3][2][2] ELSE NA

\* Line 39: data.get("status", {}).get("name", "Unknown").  A null status
\* is returned by the first get, and None has no get: AttributeError.
StatusRaises(status) == status = None

StatusName(status) ==
    LET s == Get(status, EmptyObj)
    IN IF Len(s) = 3 /\ s[2] = "name" THEN s[3] ELSE StrV("Unknown")

\* Line 42: tag["name"] raises KeyError for a tag object without the key.
TagsRaise(tags) ==
    /\ Truthy(tags)
    /\ \E i \in 1..Len(tags[2]) :
           ~(Len(tags[2][i]) = 3 /\ tags[2][i][2] = "name")

\* Line 42: ", ".join(...) if data.get("tags") else "N/A".
JoinTags(tags) ==
    IF Truthy(tags)
    THEN <<"str", "join", [i \in 1..Len(tags[2]) |-> tags[2][i][3]]>>
    ELSE NA

\* Whether the extraction of lines 20-43 raises on this body.
ExtractRaises(data) ==
    \/ UnpackRaises(data.geometry)
    \/ StatusRaises(data.status)
    \/ TagsRaise(data.tags)

\* The dict literal of lines 32-43.
ProbeDict(data) ==
    [ID |-> Get(data.id, NA),
     IPv4 |-> Get(data.address_v4, NA),
     ASN |-> Get(data.asn_v4, NA),
     Pays |-> Get(data.country_code, NA),
     Longitude |-> Longitude(data.geometry),
     Latitude |-> Latitude(data.geometry),
     Status |-> StatusName(data.status),
     First_Connected |-> format_timestamp(Get(data.first_connected, None)),
     Last_Connected |-> format_timestamp(Get(data.last_connected, None)),
     Tags |-> JoinTags(data.tags)]

\* requests.get (line 17) either returns a response or raises
\* (ConnectionError, Timeout, ...): nothing in the file catches it.
RequestRaises(resp) == resp.kind = "neterr"

\* Mutant of get_probe_info: the status code is not looked at.
get_probe_info_any_status(resp) ==
    IF RequestRaises(resp) THEN <<"raise">>
    ELSE IF ExtractRaises(resp.data) THEN <<"raise">>
         ELSE <<"return", Dict(ProbeDict(resp.data))>>

\* get_probe_info(probe_id), given what requests.get did: <<"raise">> when
\* an exception leaves the function, else <<"return", value>>.
get_probe_info(resp) ==
    IF RequestRaises(resp) THEN <<"raise">>
    ELSE IF resp.status_code = 200
         THEN IF ExtractRaises(resp.data) THEN <<"raise">>
              ELSE <<"return", Dict(ProbeDict(resp.data))>>
         ELSE <<"return", None>>

---------------------------------------------------------------------------
(* Record Filter: filter_probes, lines 85-105 *)

\* Mutant of Keep: the tests are chained with elif, so that a criterion is
\* looked at only when the ones before it are not supplied.
KeepFirstCriterion(probe, country, connected, first_after, last_after) ==
    IF Truthy(country) THEN probe.Pays = country
    ELSE IF connected # None
    THEN (probe.Status = StrV("Connected")) = connected[2]
    ELSE IF Truthy(first_after) /\ probe.First_Connected # NA
    THEN strptime_datetime(probe.First_Connected)[2] >= first_after[2]
    ELSE ~(/\ Truthy(last_after)
           /\ probe.Last_Connected # NA
           /\ strptime_datetime(probe.Last_Connected)[2] < last_after[2])

\* The loop body of lines 90-103 for one probe: TRUE when no `continue` is
\* taken and the probe is appended.  connected is None or a bool, the
\* thresholds are None or naive datetimes.
Keep(probe, country, connected, first_after, last_after) ==
    /\ ~(Truthy(country) /\ probe.Pays # country)
    /\ ~(/\ connected # None
         /\ (probe.Status = StrV("Connected")) # connected[2])
    /\ ~(/\ Truthy(first_after)
         /\ probe.First_Connected # NA
         /\ strptime_datetime(probe.First_Connected)[2] < first_after[2])
    /\ ~(/\ Truthy(last_after)
         /\ probe.Last_Connected # NA
         /\ strptime_datetime(probe.Last_Connected)[2] < last_after[2])

\* filter_probes: the probes kept, in their order.
filter_probes(ps, country, connected, first_after, last_after) ==
    LET Test(p) == Keep(p, country, connected, first_after, last_after)
    IN SelectSeq(ps, Test)

---------------------------------------------------------------------------
(* Exporter: get_output_filename, lines 46-49, and export_data, 51-82 *)

\* A file name is the sequence of its characters.
RECURSIVE RFind(_, _, _)
\* str.rfind(c) within p[1..n]: the last index of c, 0 when there is none.
RFind(p, c, n) ==
    IF n = 0 THEN 0
    ELSE IF p[n] = c THEN n ELSE RFind(p, c, n - 1)

\* os.path.splitext(p)[0] (line 49): the name without its extension.  The
\* extension starts at the last dot, if that dot comes after the last "/"
\* and some character between them is not a dot.
SplitextRoot(p) ==
    LET sep == RFind(p, "/", Len(p))
        dot == RFind(p, ".", Len(p))
    IN IF dot > sep /\ \E i \in (sep + 1)..(dot - 1) : p[i] # "."
       THEN SubSeq(p, 1, dot - 1)
       ELSE p

\* Line 48: {"csv": ".csv", "json": ".json", "txt": ".txt"}.get(fmt, ".csv").
Extension(output_format) ==
    CASE output_format = "csv" -> <<".", "c", "s", "v">>
      [] output_format = "json" -> <<".", "j", "s", "o", "n">>
      [] output_format = "txt" -> <<".", "t", "x", "t">>
      [] OTHER -> <<".", "c", "s", "v">>

get_output_filename(base_name, output_format) ==
    SplitextRoot(base_name) \o Extension(output_format)

\* Lines 57-80: the format branches that open and write a file.
WritesFile(output_format) == output_format \in {"csv", "json", "txt"}

\* What export_data prints: line 54 and line 82.
NothingToExport == <<"Aucune donnee a exporter">>
Exported(filename) == <<"Exporte avec succes dans", filename>>

\* Mutant of export_data: the empty check of lines 53-55 is missing.
export_data_no_empty_check(ps, filename, output_format, io_ok) ==
    IF WritesFile(output_format) /\ ~io_ok
    THEN [written |-> <<>>, printed |-> <<>>, raised |-> TRUE]
    ELSE [written |->
              IF WritesFile(output_format)
              THEN <<[name |-> filename, format |-> output_format,
                      rows |-> ps]>>
              ELSE <<>>,
          printed |-> <<Exported(filename)>>,
          raised |-> FALSE]

\* export_data(ps, filename, output_format), where io_ok says whether
\* open() and the writes succeed (they raise OSError otherwise).  Gives
\* the files written, the lines printed and whether an exception left it.
export_data(ps, filename, output_format, io_ok) ==
    IF Len(ps) = 0
    THEN [written |-> <<>>, printed |-> <<NothingToExport>>, raised |-> FALSE]
    ELSE IF WritesFile(output_format) /\ ~io_ok
         THEN [written |-> <<>>, printed |-> <<>>, raised |-> TRUE]
         ELSE [written |->
                   IF WritesFile(output_format)
                   THEN <<[name |-> filename, format |-> output_format,
                           rows |-> ps]>>
                   ELSE <<>>,
               printed |-> <<Exported(filename)>>,
               raised |-> FALSE]

---------------------------------------------------------------------------
(* Inputs *)

\* Largest probe id of a run.
MaxId == 3

\* A local variable that has not been assigned yet.
Unbound == <<"unbound">>

\* A response body: the JSON object of the probe, a key with value Missing
\* being a key the object does not have.
Body(id, address_v4, asn_v4, country_code, geometry, status, first_connected, last_connected, tags) ==
    [id |-> id, address_v4 |-> address_v4, asn_v4 |-> asn_v4,
     country_code |-> country_code, geometry |-> geometry,
     status |-> status, first_connected |-> first_connected,
     last_connected |-> last_connected, tags |-> tags]

\* The body of an answer that describes no probe.
NoProbeBody ==
    Body(Missing, Missing, Missing, Missing, Missing, Missing, Missing,
         Missing, Missing)

Paris == Obj("coordinates", List(<<IntV(2), IntV(48)>>))
Tag(name) == Obj("name", name)

\* Epoch hours: 23 is 1970-01-02 00:00 in Paris, 50 is 1970-01-03 03:00.
EarlyTs == 23
LateTs == 50

\* The bodies the remote service answers a run's request for `id` with.
DriverBodies(id) ==
    {Body(IntV(id), StrV("ip"), IntV(64), StrV("FR"), Paris,
          Obj("name", StrV("Connected")), IntV(EarlyTs), IntV(LateTs),
          List(<<Tag("a"), Tag("b")>>)),
     Body(IntV(id), None, None, StrV("US"), Missing,
          Obj("name", StrV("Disconnected")), Missing, None, List(<<>>)),
     Body(IntV(id), StrV("ip"), IntV(64), StrV("FR"), None,
          Missing, IntV(LateTs), IntV(LateTs), Missing),
     Body(IntV(id), StrV("ip"), IntV(64), StrV("FR"), Paris,
          None, IntV(LateTs), IntV(LateTs), Missing)}

\* The value of `response` before any request was made.
NoResponse == [kind |-> "unbound", status_code |-> 0, data |-> NoProbeBody]

\* What requests.get can do for `id`: raise, answer 404, or answer 200.
DriverResponses(id) ==
    {[kind |-> "neterr", status_code |-> 0, data |-> NoProbeBody],
     [kind |-> "http", status_code |-> 404, data |-> NoProbeBody]}
    \cup {[kind |-> "http", status_code |-> 200, data |-> b] :
              b \in DriverBodies(id)}

\* The strings given for --first-connected-after / --last-connected-after;
\* None when the option is not given.
DateArgs == {None, StrV(""), StrV("not-a-date"), <<"str", "date", 2>>}

\* The namespaces parse_args can return (lines 111-128).
DriverArgs ==
    [start_id : 1..2,
     end_id : 1..MaxId,
     country : {None, StrV("FR")},
     connected : {None, IntV(0), IntV(1)},
     first_connected_after : DateArgs,
     last_connected_after : DateArgs \ {StrV("")},
     format : {"csv", "json", "txt"},
     output : {<<"f">>, <<"p", ".", "o">>}]

---------------------------------------------------------------------------
(* Driver: main, lines 108-155 *)

\* Mutant of ConnectedFilter: `if args.connected` in place of
\* `if args.connected is not None`, which takes 0 for "not given".
ConnectedFilterTruthy(connected) ==
    IF Truthy(connected) THEN BoolV(Truthy(connected)) ELSE None

\* Line 135: bool(args.connected) if args.connected is not None else None.
ConnectedFilter(connected) ==
    IF connected # None THEN BoolV(Truthy(connected)) ELSE None

\* Lines 131-134: strptime(s, "%Y-%m-%d") if s else None.
DateRaises(s) == Truthy(s) /\ ~IsDateStr(s)
DateOrNone(s) == IF Truthy(s) THEN strptime_date(s) ELSE None

\* Mutant of InRange: range(args.start_id, args.end_id), the end excluded.
InRangeExclusive(id, a) == id < a.end_id

\* Line 138: range(args.start_id, args.end_id + 1) still yields id.
InRange(id, a) == id <= a.end_id

Init ==
    /\ args \in DriverArgs
    /\ pc = "convert"
    /\ first_connected_after = Unbound
    /\ last_connected_after = Unbound
    /\ connected_filter = Unbound
    /\ probe_id = args.start_id
    /\ response = NoResponse
    /\ info = Unbound
    /\ probes = <<>>
    /\ filtered_probes = Unbound
    /\ output_filename = Unbound
    /\ files = <<>>
    /\ stdout = <<>>
    /\ calls = <<>>
    /\ sleeps = <<>>
    /\ origin = <<>>
    /\ nfilter = 0
    /\ nexport = 0

\* Lines 131-137: the dates and the connected option are converted; an
\* unparseable date raises ValueError, which ends the run.
ConvertArgs ==
    /\ pc = "convert"
    /\ IF DateRaises(args.first_connected_after)
       THEN /\ pc' = "raised"
            /\ UNCHANGED <<first_connected_after, last_connected_after,
                           connected_filter>>
       ELSE IF DateRaises(args.last_connected_after)
       THEN /\ pc' = "raised"
            /\ first_connected_after' = DateOrNone(args.first_connected_after)
            /\ UNCHANGED <<last_connected_after, connected_filter>>
       ELSE /\ pc' = "loop"
            /\ first_connected_after' = DateOrNone(args.first_connected_after)
            /\ last_connected_after' = DateOrNone(args.last_connected_after)
            /\ connected_filter' = ConnectedFilter(args.connected)
    /\ UNCHANGED <<args, probe_id, response, info, probes, filtered_probes,
                   output_filename, files, stdout, calls, sleeps, origin,
                   nfilter, nexport>>

\* Lines 138-141: one iteration's get_probe_info call and the append.
Fetch ==
    /\ pc = "loop"
    /\ InRange(probe_id, args)
    /\ \E resp \in DriverResponses(probe_id) :
         LET r == get_probe_info(resp)
         IN /\ response' = resp
            /\ calls' = Append(calls, [id |-> probe_id, kind |-> resp.kind,
                                       status_code |-> resp.status_code])
            /\ IF r[1] = "raise"
               THEN /\ pc' = "raised"
                    /\ UNCHANGED <<info, probes, origin>>
               ELSE /\ pc' = "sleep"
                    /\ info' = r[2]
                    /\ IF Truthy(r[2])
                       THEN /\ probes' = Append(probes, r[2][2])
                            /\ origin' = Append(origin, probe_id)
                       ELSE UNCHANGED <<probes, origin>>
    /\ UNCHANGED <<args, first_connected_after, last_connected_after,
                   connected_filter, probe_id, filtered_probes,
                   output_filename, files, stdout, sleeps, nfilter, nexport>>

\* Line 142, and the loop's step to the next id.
Sleep ==
    /\ pc = "sleep"
    /\ sleeps' = Append(sleeps, probe_id)
    /\ probe_id' = probe_id + 1
    /\ pc' = "loop"
    /\ UNCHANGED <<args, first_connected_after, last_connected_after,
                   connected_filter, response, info, probes,
                   filtered_probes, output_filename, files, stdout, calls,
                   origin, nfilter, nexport>>

\* Lines 145-151, once the range is exhausted.
Filter ==
    /\ pc = "loop"
    /\ ~InRange(probe_id, args)
    /\ filtered_probes' = filter_probes(probes, args.country,
                                        connected_filter,
                                        first_connected_after,
                                        last_connected_after)
    /\ nfilter' = nfilter + 1
    /\ pc' = "export"
    /\ UNCHANGED <<args, first_connected_after, last_connected_after,
                   connected_filter, probe_id, response, info, probes,
                   output_filename, files, stdout, calls, sleeps, origin,
                   nexport>>

\* Lines 154-155.
Export ==
    /\ pc = "export"
    /\ \E io_ok \in BOOLEAN :
         LET name == get_output_filename(args.output, args.format)
             e == export_data(filtered_probes, name, args.format, io_ok)
         IN /\ output_filename' = name
            /\ files' = files \o e.written
            /\ stdout' = stdout \o e.printed
            /\ pc' = IF e.raised THEN "raised" ELSE "done"
    /\ nexport' = nexport + 1
    /\ UNCHANGED <<args, first_connected_after, last_connected_after,
                   connected_filter, probe_id, response, info, probes,
                   filtered_probes, calls, sleeps, origin, nfilter>>

Next == ConvertArgs \/ Fetch \/ Sleep \/ Filter \/ Export

Spec == Init /\ [][Next]_vars

---------------------------------------------------------------------------
(* Properties of a run of the Driver (specification Spec) *)

\* The ids of range(args.start_id, args.end_id + 1), in order.
RangeIds ==
    [i \in 1..(IF args.end_id >= args.start_id
               THEN args.end_id - args.start_id + 1 ELSE 0)
        |-> args.start_id + i - 1]

\* The range has been walked: the loop of lines 138-142 was left.
Walked == nfilter > 0

\* An option string was given and strptime(s, "%Y-%m-%d") cannot parse it.
Unparseable(s) == s # None /\ ~IsDateStr(s)

\* C1: with firstConnectedAfter supplied, no record of the filter's result
\* has the absent-marker as firstConnectedAt or a firstConnectedAt earlier
\* than the threshold; the same for lastConnectedAfter and lastConnectedAt.
C1_ThresholdExcludesAbsent ==
    Walked =>
      \A i \in 1..Len(filtered_probes) :
        /\ first_connected_after # None =>
             /\ filtered_probes[i].First_Connected # NA
             /\ strptime_datetime(filtered_probes[i].First_Connected)[2]
                    >= first_connected_after[2]
        /\ last_connected_after # None =>
             /\ filtered_probes[i].Last_Connected # NA
             /\ strptime_datetime(filtered_probes[i].Last_Connected)[2]
                    >= last_connected_after[2]

\* C2: a request that fails at network level does not end the run: the
\* Driver goes on (to the sleep, the next id, the filter and the export).
C2_NetworkFailureIsAbsent ==
    ~(/\ pc = "raised"
      /\ nfilter = 0
      /\ Len(calls) > 0
      /\ calls[Len(calls)].kind = "neterr")

\* C6: once the range is walked, no record of the accumulated, filtered or
\* exported set comes from an id whose fetch was answered with a status
\* other than 200.
C6_SkipNon200 ==
    Walked =>
      \A c \in 1..Len(calls) :
        (calls[c].kind = "http" /\ calls[c].status_code # 200) =>
          /\ \A i \in 1..Len(origin) : origin[i] # calls[c].id
          /\ \A i \in 1..Len(probes) : probes[i].ID # IntV(calls[c].id)
          /\ \A i \in 1..Len(filtered_probes) :
                 filtered_probes[i].ID # IntV(calls[c].id)
          /\ \A f \in 1..Len(files) : \A i \in 1..Len(files[f].rows) :
                 files[f].rows[i].ID # IntV(calls[c].id)

C6_Witness ==
    /\ pc = "done"
    /\ Len(files) = 1
    /\ \E c \in 1..Len(calls) : calls[c].status_code = 404
    /\ \E c \in 1..Len(calls) : calls[c].status_code = 200

\* C7: a date option that cannot be parsed stops the run at startup (no
\* fetch, no filter, no export, no file), and nothing else stops the run
\* before the range is walked.
C7_MalformedDateFailsFast ==
    /\ (\/ Unparseable(args.first_connected_after)
        \/ Unparseable(args.last_connected_after))
       => /\ calls = <<>>
          /\ nfilter = 0
          /\ nexport = 0
          /\ files = <<>>
    /\ (pc = "raised" /\ calls = <<>> /\ nfilter = 0)
       => (\/ Unparseable(args.first_connected_after)
           \/ Unparseable(args.last_connected_after))

\* C9: the connected criterion is tri-state.  Not given, it constrains
\* nothing: a probe that passes with connected true or with connected false
\* is in the result.  --connected 1 leaves only "Connected" records and
\* --connected 0 only records whose status is not "Connected".
C9_ConnectedTriState ==
    Walked =>
      /\ args.connected = None =>
           \A i \in 1..Len(probes) :
             (\E b \in BOOLEAN :
                 Keep(probes[i], args.country, BoolV(b),
                      first_connected_after, last_connected_after))
             => \E j \in 1..Len(filtered_probes) :
                    filtered_probes[j] = probes[i]
      /\ args.connected = IntV(1) =>
           \A j \in 1..Len(filtered_probes) :
             filtered_probes[j].Status = StrV("Connected")
      /\ args.connected = IntV(0) =>
           \A j \in 1..Len(filtered_probes) :
             filtered_probes[j].Status # StrV("Connected")

C9_Witness ==
    /\ Walked
    /\ args.connected = IntV(0)
    /\ \E i \in 1..Len(probes) : probes[i].Status = StrV("Connected")
    /\ \E j \in 1..Len(filtered_probes) :
           filtered_probes[j].Status = StrV("Unknown")
    /\ \E j \in 1..Len(filtered_probes) :
           filtered_probes[j].Status = StrV("Disconnected")

\* C10: the Fetcher is invoked once per id of [start_id, end_id], in
\* increasing order; the sleep follows every fetch, whatever it returned;
\* the records are appended in that order; the Filter is applied once and
\* then the Exporter once, both after the fetch (and sleep) for end_id.
C10_WalkThenFilterThenExport ==
    /\ Len(calls) <= Len(RangeIds)
    /\ \A i \in 1..Len(calls) : calls[i].id = RangeIds[i]
    /\ Len(sleeps) <= Len(calls)
    /\ \A i \in 1..Len(sleeps) : sleeps[i] = calls[i].id
    /\ pc = "loop" => Len(sleeps) = Len(calls)
    /\ Len(origin) = Len(probes)
    /\ \A i \in 1..Len(origin) :
         /\ \E c \in 1..Len(calls) :
                calls[c].id = origin[i] /\ calls[c].status_code = 200
         /\ \A j \in 1..Len(origin) : i < j => origin[i] < origin[j]
    /\ nfilter <= 1
    /\ nexport <= nfilter
    /\ Walked => /\ Len(calls) = Len(RangeIds)
                 /\ Len(sleeps) = Len(RangeIds)
    /\ pc = "done" => nfilter = 1 /\ nexport = 1

C10_Witness ==
    /\ pc = "done"
    /\ Len(calls) > 1
    /\ Len(probes) > 1
    /\ Len(probes) < Len(calls)

---------------------------------------------------------------------------
(* get_probe_info on every shape of answer (specification SpecFetch) *)

\* The bodies of a 200 answer: every optional field missing, null or
\* present, and the shapes of the nested ones.
FetchBodies ==
    [id : {Missing, None, IntV(1)},
     address_v4 : {Missing, None, StrV("ip")},
     asn_v4 : {Missing, None, IntV(64)},
     country_code : {Missing, None, StrV("FR")},
     geometry : {Missing, None, EmptyObj, Paris, Obj("coordinates", None)},
     status : {Missing, None, EmptyObj, Obj("name", None),
               Obj("name", StrV("Connected"))},
     first_connected : {Missing, None, IntV(0), IntV(LateTs)},
     last_connected : {Missing, IntV(EarlyTs)},
     tags : {Missing, None, List(<<>>), List(<<Tag("a"), Tag("b")>>),
             List(<<EmptyObj>>)}]

FetchResponses ==
    {[kind |-> "neterr", status_code |-> 0, data |-> NoProbeBody]}
    \cup {[kind |-> "http", status_code |-> c, data |-> NoProbeBody] :
              c \in {404, 500}}
    \cup {[kind |-> "http", status_code |-> 200, data |-> b] :
              b \in FetchBodies}

\* The namespace of a run with no option given (the defaults of lines
\* 111-126, the range left empty).
DefaultArgs ==
    [start_id |-> 1, end_id |-> 0, country |-> None, connected |-> None,
     first_connected_after |-> None, last_connected_after |-> None,
     format |-> "csv", output |-> <<"f">>]

InitFetch ==
    /\ response \in FetchResponses
    /\ pc = "get_probe_info"
    /\ args = DefaultArgs
    /\ first_connected_after = Unbound
    /\ last_connected_after = Unbound
    /\ connected_filter = Unbound
    /\ probe_id = 1
    /\ info = Unbound
    /\ probes = <<>>
    /\ filtered_probes = Unbound
    /\ output_filename = Unbound
    /\ files = <<>>
    /\ stdout = <<>>
    /\ calls = <<>>
    /\ sleeps = <<>>
    /\ origin = <<>>
    /\ nfilter = 0
    /\ nexport = 0

\* One call of get_probe_info (lines 14-44) on the answer `response`.
GetProbeInfo ==
    /\ pc = "get_probe_info"
    /\ LET r == get_probe_info(response)
       IN IF r[1] = "raise"
          THEN pc' = "raised" /\ UNCHANGED info
          ELSE pc' = "returned" /\ info' = r[2]
    /\ calls' = Append(calls, [id |-> probe_id, kind |-> response.kind,
                               status_code |-> response.status_code])
    /\ UNCHANGED <<args, first_connected_after, last_connected_after,
                   connected_filter, probe_id, response, probes,
                   filtered_probes, output_filename, files, stdout, sleeps,
                   origin, nfilter, nexport>>

SpecFetch == InitFetch /\ [][GetProbeInfo]_vars

\* C3: on a 200 answer, whichever optional fields are missing or null,
\* get_probe_info raises nothing and returns a record whose ten fields are
\* each a concrete value or the absent-marker, never None.
C3_TotalDefaulting ==
    (pc # "get_probe_info" /\ response.status_code = 200) =>
      /\ pc = "returned"
      /\ info[1] = "dict"
      /\ DOMAIN info[2] = {"ID", "IPv4", "ASN", "Pays", "Longitude",
                           "Latitude", "Status", "First_Connected",
                           "Last_Connected", "Tags"}
      /\ \A f \in DOMAIN info[2] : info[2][f] # None /\ info[2][f] # Missing

---------------------------------------------------------------------------
(* filter_probes on lists of records (specification SpecFilter) *)

\* Longest list of records given to filter_probes.
MaxLen == 2

\* The records get_probe_info builds from bodies that differ in the fields
\* the criteria read.
FilterRecords ==
    {ProbeDict(Body(IntV(1), StrV("ip"), IntV(64), cc, Paris, st, fc, lc,
                    Missing)) :
        cc \in {StrV("FR"), StrV("US")},
        st \in {Obj("name", StrV("Connected")), Missing},
        fc \in {Missing, IntV(EarlyTs), IntV(LateTs)},
        lc \in {Missing, IntV(LateTs)}}

RecordLists == UNION {[1..n -> FilterRecords] : n \in 0..MaxLen}

\* The threshold the date options give: midnight of 1970-01-03.
Threshold == strptime_date(<<"str", "date", 2>>)

InitFilter ==
    /\ probes \in RecordLists
    /\ \E c \in {None, StrV(""), StrV("FR")} :
           args = [DefaultArgs EXCEPT !.country = c]
    /\ connected_filter \in {None, BoolV(TRUE), BoolV(FALSE)}
    /\ first_connected_after \in {None, Threshold}
    /\ last_connected_after \in {None, Threshold}
    /\ pc = "loop"
    /\ probe_id = 1
    /\ response = NoResponse
    /\ info = Unbound
    /\ filtered_probes = Unbound
    /\ output_filename = Unbound
    /\ files = <<>>
    /\ stdout = <<>>
    /\ calls = <<>>
    /\ sleeps = <<>>
    /\ origin = <<>>
    /\ nfilter = 0
    /\ nexport = 0

SpecFilter == InitFilter /\ [][Filter]_vars

\* The records of a list, as a set.
Records(ps) == {ps[i] : i \in 1..Len(ps)}

\* The result of filtering `probes` with the one criterion k of the state.
FilterOnly(k) ==
    filter_probes(probes,
                  IF k = "country" THEN args.country ELSE None,
                  IF k = "connected" THEN connected_filter ELSE None,
                  IF k = "first" THEN first_connected_after ELSE None,
                  IF k = "last" THEN last_connected_after ELSE None)

\* The criteria the state supplies.
Supplied ==
    {k \in {"country", "connected", "first", "last"} :
        \/ k = "country" /\ args.country # None
        \/ k = "connected" /\ connected_filter # None
        \/ k = "first" /\ first_connected_after # None
        \/ k = "last" /\ last_connected_after # None}

\* C5: filtering with two criteria A and B gives exactly the records that
\* are in the result of filtering with A alone and in the result of
\* filtering with B alone.
C5_FilterConjunction ==
    (Walked /\ Cardinality(Supplied) = 2) =>
      \A a \in Supplied : \A b \in Supplied \ {a} :
        Records(filtered_probes) =
            Records(FilterOnly(a)) \cap Records(FilterOnly(b))

C5_Witness ==
    /\ Walked
    /\ Supplied = {"connected", "first"}
    /\ Len(probes) = 2
    /\ Len(FilterOnly("connected")) = 1
    /\ Len(FilterOnly("first")) = 1
    /\ FilterOnly("connected") # FilterOnly("first")
    /\ Len(filtered_probes) = 0

---------------------------------------------------------------------------
(* get_output_filename and export_data (specification SpecExport) *)

ExportRecords ==
    {ProbeDict(Body(IntV(i), StrV("ip"), IntV(64), StrV("FR"), Paris,
                    Obj("name", StrV("Connected")), IntV(EarlyTs),
                    IntV(LateTs), Missing)) : i \in 1..2}

\* Output names: without extension, with one, a dot file, a dot in a
\* directory name only.
OutputNames ==
    {<<"f">>, <<"p", ".", "o">>, <<".", "h">>, <<"a", ".", "b", "/", "c">>}

\* The formats, and one that line 48 does not know.
Formats == {"csv", "json", "txt", "xml"}

InitExport ==
    /\ filtered_probes \in
           UNION {[1..n -> ExportRecords] : n \in 0..MaxLen}
    /\ \E o \in OutputNames : \E f \in Formats :
           args = [DefaultArgs EXCEPT !.output = o, !.format = f]
    /\ pc = "export"
    /\ first_connected_after = None
    /\ last_connected_after = None
    /\ connected_filter = None
    /\ probe_id = 1
    /\ response = NoResponse
    /\ info = Unbound
    /\ probes = filtered_probes
    /\ output_filename = Unbound
    /\ files = <<>>
    /\ stdout = <<>>
    /\ calls = <<>>
    /\ sleeps = <<>>
    /\ origin = <<>>
    /\ nfilter = 1
    /\ nexport = 0

SpecExport == InitExport /\ [][Export]_vars

\* C4: for a non-empty collection and any format, known or not, the
\* confirmation naming the file is printed only if exactly one file was
\* written, at that name, during the call.
C4_SuccessOnlyIfWritten ==
    (nexport = 1 /\ Len(filtered_probes) > 0) =>
      \A i \in 1..Len(stdout) :
        stdout[i] = Exported(output_filename) =>
          Len(files) = 1 /\ files[1].name = output_filename

\* C8: export of an empty collection, for any format and file name,
\* writes no file, prints the "nothing to export" notice and does not
\* print the confirmation.
C8_EmptyExport ==
    (nexport = 1 /\ Len(filtered_probes) = 0) =>
      /\ files = <<>>
      /\ stdout = <<NothingToExport>>
      /\ pc = "done"

C8_Witness ==
    /\ nexport = 1
    /\ Len(filtered_probes) = 0
    /\ args.format = "json"
    /\ output_filename = <<"p", ".", "j", "s", "o", "n">>

===========================================================================
